---------------------------- MODULE Spec2Model ----------------------------
(***************************************************************************)
(* Model of src/app.py: the colour-to-sound synthesiser.                   *)
(*                                                                         *)
(* Number representation (the program computes in IEEE doubles; the model  *)
(* computes the same formulas exactly over fixed-point integers):          *)
(*   hue          degrees                      0 .. 360                    *)
(*   saturation   thousandths                  0 .. 1000                   *)
(*   value        tenths                       0 .. 10                     *)
(*   frequency    tenths of a hertz                                        *)
(*   time         microseconds                                             *)
(*   phase        thousandths of a cycle                                   *)
(*   unit sample  thousandths                  -1000 .. 1000               *)
(*   amplitude    hundredths                   0 .. 50                     *)
(*   audio_signal numerators over the divisor held in "denom"              *)
(***************************************************************************)
EXTENDS Integers, Sequences, FiniteSets, TLC

\* ------------------------------------------------------------- bounds
MaxLen == 2        \* longest drawing_data list a request carries
MaxChunk == 4096   \* most samples one write system call transfers

\* ---------------------------------------------------------- constants
SAMPLE_RATE == 44100
DURATION_PER_SLICE == 50          \* 0.05 s, in milliseconds
A4 == 4400                        \* 440.0 Hz, in tenths of a hertz
INT16_SCALE == 32767

Procs == {1, 2}

\* ------------------------------------------------------ number helpers
Abs(x) == IF x < 0 THEN -x ELSE x

Sign(x) == IF x > 0 THEN 1 ELSE IF x < 0 THEN -1 ELSE 0

\* Division truncating toward zero (the float -> integer cast).
Trunc(a, b) == IF a >= 0 THEN a \div b ELSE -((-a) \div b)

\* a / b rounded to the nearest representable number (a float operation).
RDiv(a, b) == IF 2 * (a % b) >= b THEN (a \div b) + 1 ELSE a \div b

\* Division rounding to nearest, ties away from zero.
RoundNearest(a, b) == IF a >= 0 THEN RDiv(a, b) ELSE -RDiv(-a, b)

\* e^(z/10^4) * 10^4 by its power series, eight terms.
RECURSIVE ExpSeries(_, _, _)
ExpSeries(z, term, n) ==
    IF n > 8 THEN 0
    ELSE term + ExpSeries(z, RDiv(term * z, n * 10000), n + 1)

\* 2 ** (num / den), times 10^4  (ln 2 = 0.6931).
Pow2(num, den) == ExpSeries(RDiv(num * 6931, den), 10000, 1)

\* C4 = A4 * (2**(-9/12))
C4 == RDiv(A4 * Pow2(-9, 12), 10000)

\* ------------------------------------------------------ hue_to_frequency
\* semitones = (hue / 360.0) * 12, in thousandths of a semitone
Semitones(hue) == RDiv(hue * 12 * 1000, 360)

hue_to_frequency(hue) == RDiv(C4 * Pow2(Semitones(hue), 12 * 1000), 10000)

\* ------------------------------------------------------ generate_waveform
\* Faulty variant: the end point counted as a sample.
num_samples_endpoint(duration) == (SAMPLE_RATE * duration) \div 1000 + 1

num_samples(duration) == (SAMPLE_RATE * duration) \div 1000

\* np.linspace(0, duration, num_samples, endpoint=False)[j], in microseconds
TimeAt(j, duration) == RDiv(j * duration * 1000, num_samples(duration))

\* frequency * t, in thousandths of a cycle
Phase(frequency, t) == RDiv(frequency * t, 10000)

\* sin(2*pi*x) for x = ph/1000 cycles, in thousandths (Bhaskara's rational
\* form 16u(1-u) / (5 - 4u(1-u)) on each half cycle, u the half-cycle phase).
Sin2Pi(ph) ==
    LET m == ph % 1000
        u == 2 * (m % 500)
        y == u * (1000 - u)
        a == (4000 * y) \div (1250000 - y)
    IN  IF m < 500 THEN a ELSE -a

\* 2 * |2 * (x - floor(x + 0.5))| - 1 for x = ph/1000 cycles, in thousandths
Triangle(ph) ==
    LET d == ph - 1000 * ((ph + 500) \div 1000)
    IN  4 * Abs(d) - 1000

WaveSample(frequency, duration, wave_type, j) ==
    LET ph == Phase(frequency, TimeAt(j, duration))
    IN  CASE wave_type = "sine"     -> Sin2Pi(ph)
          [] wave_type = "square"   -> 1000 * Sign(Sin2Pi(ph))
          [] wave_type = "triangle" -> Triangle(ph)
          [] OTHER                  -> 0

generate_waveform(frequency, duration, wave_type) ==
    [i \in 1..num_samples(duration) |->
        WaveSample(frequency, duration, wave_type, i - 1)]


\* ------------------------------------------------ generate_sound_from_data
\* if s < 0.33: 'sine'  elif s < 0.67: 'triangle'  else: 'square'
\* Faulty variant: the bin boundaries taken with <=.
WaveTypeInclusive(s) ==
    IF s <= 330 THEN "sine"
    ELSE IF s <= 670 THEN "triangle"
    ELSE "square"

WaveType(s) ==
    IF s < 330 THEN "sine"
    ELSE IF s < 670 THEN "triangle"
    ELSE "square"

\* amplitude = v * 0.5  (v in tenths, amplitude in hundredths)
Amplitude(v) == v * 5

\* One colour sample <<h, s, v>> to its sound parameters.
MapColor(sample) ==
    [frequency |-> hue_to_frequency(sample[1]),
     wave_type |-> WaveType(sample[2]),
     amplitude |-> Amplitude(sample[3])]

\* segment * amplitude
Scale(segment, amplitude) ==
    [i \in 1..Len(segment) |-> segment[i] * amplitude]

\* np.concatenate([audio_signal, segment * amplitude])
\* Faulty variant: the new segment put in front.
ConcatenateFront(signal, scaled) == scaled \o signal

Concatenate(signal, scaled) == signal \o scaled

\* The divisor of a freshly assembled signal: unit samples are thousandths
\* and amplitudes hundredths.
UnitDenom == 1000 * 100

\* np.max(np.abs(audio_signal)) over positions lo..hi
RECURSIVE MaxAbs(_, _, _)
MaxAbs(signal, lo, hi) ==
    IF lo = hi THEN Abs(signal[lo])
    ELSE LET mid == (lo + hi) \div 2
             a == MaxAbs(signal, lo, mid)
             b == MaxAbs(signal, mid + 1, hi)
         IN  IF a >= b THEN a ELSE b

max_amplitude(signal) == MaxAbs(signal, 1, Len(signal))

\* if len(audio_signal) > 0: ... if max_amplitude > 0:
\* Faulty variant: the test "max_amplitude > 0" left out.
ShouldDivideNonEmpty(signal) == Len(signal) > 0

ShouldDivide(signal) == Len(signal) > 0 /\ max_amplitude(signal) > 0

\* The int16 cast of an integer: values outside the type wrap around.
Int16(x) == ((x + 32768) % 65536) - 32768

\* np.int16(x * 32767) for the sample num/den: the cast drops the fraction.
\* Faulty variant: the full scale taken as 2^15.
QuantizeFullScale(num, den) == Int16(Trunc(num * (INT16_SCALE + 1), den))

\* Faulty variant: the product rounded to nearest before the cast.
QuantizeNearest(num, den) == Int16(RoundNearest(num * INT16_SCALE, den))

Quantize(num, den) == Int16(Trunc(num * INT16_SCALE, den))

\* ------------------------------------------------------------ the file
NoFile == [exists |-> FALSE, data |-> << >>]

\* output.wav left by an earlier run: one slice of silence.
PreviousOutput ==
    [exists |-> TRUE, data |-> [i \in 1..num_samples(DURATION_PER_SLICE) |-> 0]]

\* open(filename, 'wb'): creates the file or cuts it to length zero.
\* Faulty variant: the file opened for update, its content kept.
OpenKeep(f) == [exists |-> TRUE, data |-> f.data]

OpenTruncate(f) == [exists |-> TRUE, data |-> << >>]

\* A write of "chunk" at position "off" of a file holding "data": the bytes
\* at off+1 .. off+Len(chunk) are replaced, a gap before off reads as zeros.
WriteAt(data, off, chunk) ==
    LET end == off + Len(chunk)
        n == IF Len(data) > end THEN Len(data) ELSE end
    IN  [i \in 1..n |->
            IF i > off /\ i <= end THEN chunk[i - off]
            ELSE IF i <= Len(data) THEN data[i]
            ELSE 0]

Min(a, b) == IF a <= b THEN a ELSE b

\* ------------------------------------------------------------ requests
\* Colour samples <<hue, saturation, value>> a request may carry.
Tones == { <<0, 100, 10>>, <<180, 500, 10>>, <<300, 900, 5>> }
Black == <<0, 0, 0>>

Lists(S, n) == UNION { [1..m -> S] : m \in 0..n }

\* The body of a request: no JSON at all, a JSON object without the field
\* drawing_data, with drawing_data null, or with a list of samples.
Kinds == {"nojson", "absent", "null", "list"}

Body(kind, list) == [kind |-> kind, drawing_data |-> list]

Requests ==
    { Body(k, << >>) : k \in {"nojson", "absent", "null"} }
        \cup { Body("list", d) : d \in Lists(Tones, MaxLen) }
        \cup { Body("list", d) : d \in Lists({Black}, MaxLen) }

\* The two concurrent requests: a short drawing and a longer one.
ConcRequests(p) ==
    IF p = 1 THEN { Body("list", << <<0, 100, 10>> >>) }
    ELSE { Body("list", << <<180, 500, 10>>, <<300, 900, 5>> >>),
           Body("list", << <<0, 0, 0>> >>) }

NoResponse == [status |-> 0, filename |-> "", error |-> ""]

VARIABLES
    pc,            \* where each request handler stands
    request,       \* the body of the request it serves
    idx,           \* samples of drawing_data already processed by the loop
    audio_signal,  \* the accumulated signal (numerators)
    denom,         \* the divisor of audio_signal
    int_audio,     \* the 16-bit samples
    offset,        \* position of the handler's open file
    response,      \* what the handler returned
    file,          \* static/output.wav
    served,        \* what the last GET /audio/output.wav returned
    lastWriter,    \* history: the handler that last opened or wrote the file
    overlapped,    \* history: another handler touched the file while this
                   \* one had it open
    arg,           \* mapper check: the colour sample
    res            \* mapper check: its sound parameters

vars == <<pc, request, idx, audio_signal, denom, int_audio, offset, response,
          file, served, lastWriter, overlapped, arg, res>>

local == <<request, idx, audio_signal, denom, int_audio, offset>>
history == <<lastWriter, overlapped>>
mapper == <<arg, res>>

NotServed == [status |-> 0, data |-> << >>]
NoParams == [frequency |-> 0, wave_type |-> "", amplitude |-> 0]

NoArg == <<0, 0, 0>>

InitCommon ==
    /\ pc = [p \in Procs |-> "idle"]
    /\ request = [p \in Procs |-> Body("nojson", << >>)]
    /\ idx = [p \in Procs |-> 0]
    /\ audio_signal = [p \in Procs |-> << >>]
    /\ denom = [p \in Procs |-> UnitDenom]
    /\ int_audio = [p \in Procs |-> << >>]
    /\ offset = [p \in Procs |-> 0]
    /\ response = [p \in Procs |-> NoResponse]
    /\ served = NotServed
    /\ lastWriter = 0
    /\ overlapped = [p \in Procs |-> FALSE]

Init ==
    /\ InitCommon
    /\ file \in {NoFile, PreviousOutput}
    /\ arg = NoArg
    /\ res = NoParams

\* ------------------------------------------------------ handle_drawing_data
\* request.json, data.get('drawing_data'), "if not drawing_data", and the
\* except clause for what they raise.
HandleRequest(p, r) ==
    /\ pc[p] = "idle"
    /\ request' = [request EXCEPT ![p] = r]
    /\ IF r.kind = "nojson"
       THEN \* request.json raises, or is None and data.get raises
            /\ response' = [response EXCEPT ![p] =
                   [status |-> 500, filename |-> "", error |-> "json"]]
            /\ pc' = [pc EXCEPT ![p] = "done"]
       ELSE IF r.kind \in {"absent", "null"} \/ Len(r.drawing_data) = 0
       THEN /\ response' = [response EXCEPT ![p] =
                   [status |-> 400, filename |-> "",
                    error |-> "Nenhum dado de desenho recebido."]]
            /\ pc' = [pc EXCEPT ![p] = "done"]
       ELSE /\ response' = response
            /\ pc' = [pc EXCEPT ![p] = "loop"]
    /\ UNCHANGED <<idx, audio_signal, denom, int_audio, offset,
                   file, served, history, mapper>>

\* One pass of "for h, s, v in drawing_data".
LoopIteration(p) ==
    /\ pc[p] = "loop"
    /\ idx[p] < Len(request[p].drawing_data)
    /\ LET sample == request[p].drawing_data[idx[p] + 1]
           par == MapColor(sample)
           segment == generate_waveform(par.frequency, DURATION_PER_SLICE,
                                        par.wave_type)
       IN  audio_signal' = [audio_signal EXCEPT ![p] =
               Concatenate(@, Scale(segment, par.amplitude))]
    /\ idx' = [idx EXCEPT ![p] = @ + 1]
    /\ pc' = [pc EXCEPT ![p] =
           IF idx[p] + 1 = Len(request[p].drawing_data)
           THEN "normalize" ELSE "loop"]
    /\ UNCHANGED <<request, denom, int_audio, offset, response,
                   file, served, history, mapper>>

\* audio_signal /= max_amplitude
NormalizeDivide(p) ==
    /\ pc[p] = "normalize"
    /\ ShouldDivide(audio_signal[p])
    /\ denom' = [denom EXCEPT ![p] = max_amplitude(audio_signal[p])]
    /\ pc' = [pc EXCEPT ![p] = "quantize"]
    /\ UNCHANGED <<request, idx, audio_signal, int_audio, offset, response,
                   file, served, history, mapper>>

\* The signal is empty or silent: it is left as it is.
NormalizeSkip(p) ==
    /\ pc[p] = "normalize"
    /\ ~ShouldDivide(audio_signal[p])
    /\ pc' = [pc EXCEPT ![p] = "quantize"]
    /\ UNCHANGED <<local, response, file, served, history, mapper>>

\* int_audio = np.int16(audio_signal * 32767)
QuantizeSignal(p) ==
    /\ pc[p] = "quantize"
    /\ int_audio' = [int_audio EXCEPT ![p] =
           [i \in 1..Len(audio_signal[p]) |->
               Quantize(audio_signal[p][i], denom[p])]]
    /\ pc' = [pc EXCEPT ![p] = "open"]
    /\ UNCHANGED <<request, idx, audio_signal, denom, offset, response,
                   file, served, history, mapper>>

\* Handlers other than p that hold the file open.
Writing(p) == {q \in Procs \ {p} : pc[q] = "write"}

Touch(p) ==
    /\ lastWriter' = p
    /\ overlapped' = [q \in Procs |->
           IF q \in Writing(p) THEN TRUE ELSE overlapped[q]]

\* os.makedirs, then write_wav opens output.wav for writing.
OpenFile(p) ==
    /\ pc[p] = "open"
    /\ file' = OpenTruncate(file)
    /\ offset' = [offset EXCEPT ![p] = 0]
    /\ pc' = [pc EXCEPT ![p] = "write"]
    /\ Touch(p)
    /\ UNCHANGED <<request, idx, audio_signal, denom, int_audio, response,
                   served, mapper>>

\* os.makedirs or the open raises: the except clause answers 500.
OpenFail(p) ==
    /\ pc[p] = "open"
    /\ response' = [response EXCEPT ![p] =
           [status |-> 500, filename |-> "", error |-> "open"]]
    /\ pc' = [pc EXCEPT ![p] = "done"]
    /\ UNCHANGED <<local, file, served, history, mapper>>

\* write_wav transfers the next samples of int_audio.
WriteChunk(p) ==
    /\ pc[p] = "write"
    /\ offset[p] < Len(int_audio[p])
    /\ LET n == Min(MaxChunk, Len(int_audio[p]) - offset[p])
           chunk == SubSeq(int_audio[p], offset[p] + 1, offset[p] + n)
       IN  /\ file' = [exists |-> TRUE,
                       data |-> WriteAt(file.data, offset[p], chunk)]
           /\ offset' = [offset EXCEPT ![p] = @ + n]
           /\ pc' = [pc EXCEPT ![p] =
                  IF offset[p] + n = Len(int_audio[p])
                  THEN "return" ELSE "write"]
    /\ Touch(p)
    /\ UNCHANGED <<request, idx, audio_signal, denom, int_audio, response,
                   served, mapper>>

\* A write raises (storage full or gone): the except clause answers 500.
WriteFail(p) ==
    /\ pc[p] = "write"
    /\ response' = [response EXCEPT ![p] =
           [status |-> 500, filename |-> "", error |-> "write"]]
    /\ pc' = [pc EXCEPT ![p] = "done"]
    /\ UNCHANGED <<local, file, served, history, mapper>>

\* return 'output.wav', and the handler's 200 answer.
Return(p) ==
    /\ pc[p] = "return"
    /\ response' = [response EXCEPT ![p] =
           [status |-> 200, filename |-> "output.wav", error |-> ""]]
    /\ pc' = [pc EXCEPT ![p] = "done"]
    /\ UNCHANGED <<local, file, served, history, mapper>>

\* GET /audio/output.wav
ServeAudio ==
    /\ served' = IF file.exists THEN [status |-> 200, data |-> file.data]
                 ELSE [status |-> 404, data |-> << >>]
    /\ UNCHANGED <<pc, local, response, file, history, mapper>>

Step(p) ==
    \/ LoopIteration(p)
    \/ NormalizeDivide(p)
    \/ NormalizeSkip(p)
    \/ QuantizeSignal(p)
    \/ OpenFile(p)
    \/ OpenFail(p)
    \/ WriteChunk(p)
    \/ WriteFail(p)
    \/ Return(p)

\* One request at a time.
Next ==
    \/ \E r \in Requests : HandleRequest(1, r)
    \/ Step(1)

Spec == Init /\ [][Next]_vars

\* Two requests served by two threads.
ConcInit ==
    /\ InitCommon
    /\ file = NoFile
    /\ arg = NoArg
    /\ res = NoParams

ConcNext ==
    \/ \E p \in Procs : \E r \in ConcRequests(p) : HandleRequest(p, r)
    \/ \E p \in Procs : Step(p)
    \/ ServeAudio

SpecConc == ConcInit /\ [][ConcNext]_vars

\* The mapper alone, over its input ranges.
PureInputs ==
    { <<h, 0, 10>> : h \in 0..360 }
        \cup { <<0, s, 10>> : s \in 0..1000 }
        \cup { <<180, 500, v>> : v \in 0..10 }

PureInit ==
    /\ InitCommon
    /\ file = NoFile
    /\ arg \in PureInputs
    /\ res = NoParams

\* The first three statements of the loop body, on one sample.
MapSample ==
    /\ res = NoParams
    /\ res' = MapColor(arg)
    /\ UNCHANGED <<pc, local, response, file, served, history, arg>>

PureNext == MapSample

SpecPure == PureInit /\ [][PureNext]_vars


\* ================================================================ claims
Served(p) == pc[p] = "done" /\ response[p].status = 200
Quantized(p) == pc[p] \in {"open", "write", "return"} \/ Served(p)
Assembled(p) == pc[p] \in {"normalize", "quantize"} \/ Quantized(p)
Normalized(p) == pc[p] = "quantize" \/ Quantized(p)
Data(p) == request[p].drawing_data

\* C1: the assembled signal has n x 2205 samples: a slice of 0.05 s is 2205
\* samples, after k inputs the signal holds k x 2205, and the finished signal
\* and the 16-bit signal hold n x 2205.
C1_SignalLength ==
    /\ num_samples(DURATION_PER_SLICE) = 2205
    /\ \A p \in Procs :
        /\ Len(audio_signal[p]) = idx[p] * 2205
        /\ Assembled(p) => Len(audio_signal[p]) = Len(Data(p)) * 2205
        /\ Quantized(p) => Len(int_audio[p]) = Len(Data(p)) * 2205

C1_Witness ==
    /\ pc[1] = "open"
    /\ Len(Data(1)) = 2
    /\ Len(int_audio[1]) = 4410

\* C2: every 16-bit sample lies in [-32767, 32767], because every sample of
\* the normalized signal has absolute value at most 1.
C2_SampleRange ==
    \A p \in Procs :
        /\ Normalized(p) =>
              \A i \in 1..Len(audio_signal[p]) :
                  Abs(audio_signal[p][i]) <= denom[p]
        /\ \A i \in 1..Len(int_audio[p]) :
              int_audio[p][i] >= -32767 /\ int_audio[p][i] <= 32767

C2_Witness ==
    /\ Quantized(1)
    /\ \E i \in 1..Len(int_audio[1]) : int_audio[1][i] = 32767
    /\ \E i \in 1..Len(int_audio[1]) : int_audio[1][i] = -32767

\* C3 (as claimed): a request whose sample sequence is missing or empty (no
\* JSON, no field, null, an empty list) is answered 400, nothing is
\* synthesized and the handler never reaches the file.
InvalidInput(r) == r.kind # "list" \/ Len(r.drawing_data) = 0

C3_InvalidInputIs400 ==
    \A p \in Procs :
        (pc[p] = "done" /\ InvalidInput(request[p])) =>
            /\ response[p].status = 400
            /\ audio_signal[p] = << >>
            /\ int_audio[p] = << >>
            /\ lastWriter # p

\* C4: the saturation bins: sine iff s < 0.33, triangle iff 0.33 <= s <
\* 0.67, square iff 0.67 <= s <= 1; the boundary samples fall as listed.
C4_WaveformBins ==
    res # NoParams =>
        /\ res.wave_type \in {"sine", "triangle", "square"}
        /\ res.wave_type = "sine" <=> (0 <= arg[2] /\ arg[2] < 330)
        /\ res.wave_type = "triangle" <=> (330 <= arg[2] /\ arg[2] < 670)
        /\ res.wave_type = "square" <=> (670 <= arg[2] /\ arg[2] <= 1000)
        /\ arg[2] = 329 => res.wave_type = "sine"
        /\ arg[2] = 330 => res.wave_type = "triangle"
        /\ arg[2] = 669 => res.wave_type = "triangle"
        /\ arg[2] = 670 => res.wave_type = "square"
        /\ arg[2] = 1000 => res.wave_type = "square"

C4_Witness == res # NoParams /\ arg[2] = 330 /\ res.wave_type = "triangle"

\* C5 (as claimed): hue 360 maps to the frequency of hue 0, C4.
C5_HuePeriodic ==
    (res # NoParams /\ arg[1] = 360) =>
        /\ res.frequency = hue_to_frequency(0)
        /\ res.frequency = C4

\* C6: output positions [i x 2205, (i+1) x 2205) hold the segment of the
\* i-th input sample (frequency from its hue, waveform from its saturation,
\* scaled by value x 0.5), before quantization and, quantized, in the output.
ExpectedAt(par, j) ==
    WaveSample(par.frequency, DURATION_PER_SLICE, par.wave_type, j)
        * par.amplitude

C6_OrderPreserved ==
    \A p \in Procs :
        /\ Assembled(p) => idx[p] = Len(Data(p))
        /\ \A i \in 1..idx[p] :
              LET par == [frequency |-> hue_to_frequency(Data(p)[i][1]),
                          wave_type |-> WaveType(Data(p)[i][2]),
                          amplitude |-> Data(p)[i][3] * 5]
                  base == (i - 1) * 2205
              IN  IF Quantized(p)
                  THEN \A j \in 0..2204 :
                          int_audio[p][base + j + 1]
                              = Trunc(ExpectedAt(par, j) * 32767, denom[p])
                  ELSE \A j \in 0..2204 :
                          audio_signal[p][base + j + 1] = ExpectedAt(par, j)

C6_Witness ==
    /\ Quantized(1)
    /\ Len(Data(1)) = 2
    /\ Data(1)[1] # Data(1)[2]

\* C7 (as claimed): when both requests have been answered 200, the file
\* holds the audio of the request that wrote last.
C7_LastWriterWins ==
    \A p \in Procs :
        ((\A q \in Procs : Served(q)) /\ lastWriter = p)
            => file.data = int_audio[p]

\* C7 (amended): nothing excludes another request from the file while one
\* writes it; the file holds the audio of the request that wrote last when
\* no other request touched the file during that request's write.
C7_LastUndisturbedWriterWins ==
    \A p \in Procs :
        ((pc[p] = "return" \/ Served(p)) /\ lastWriter = p /\ ~overlapped[p])
            => (file.exists /\ file.data = int_audio[p])

\* A request answered 200 naming output.wav while the file holds other
\* audio, which a reader has fetched.
C7_Witness ==
    \E p \in Procs :
        /\ Served(p)
        /\ response[p].filename = "output.wav"
        /\ file.data # int_audio[p]
        /\ served.status = 200
        /\ served.data # int_audio[p]
        /\ \E q \in Procs \ {p} : pc[q] = "write"

\* C8 (as claimed): a failed write ends in a 500 answer and leaves no
\* partly written output.wav.
WriteFailed(p) == pc[p] = "done" /\ response[p].error \in {"open", "write"}

PartialFile(p) ==
    /\ file.exists
    /\ lastWriter = p
    /\ Len(file.data) < Len(int_audio[p])
    /\ file.data = SubSeq(int_audio[p], 1, Len(file.data))

C8_FailureLeavesNoPartialFile ==
    \A p \in Procs :
        WriteFailed(p) => (response[p].status = 500 /\ ~PartialFile(p))

\* C9 (as claimed): the stored value is the sample times 32767 rounded to
\* the nearest integer.
C9_RoundsToNearest ==
    \A p \in Procs : Quantized(p) =>
        \A i \in 1..Len(int_audio[p]) :
            int_audio[p][i]
                = RoundNearest(audio_signal[p][i] * 32767, denom[p])

\* C9 (amended): the stored value is the sample times 32767 with its
\* fraction dropped (rounded toward zero): 0.6 becomes 0, -0.6 becomes 0.
C9_TruncatesTowardZero ==
    \A p \in Procs : Quantized(p) =>
        \A i \in 1..Len(int_audio[p]) :
            LET q == int_audio[p][i]
                x == audio_signal[p][i] * 32767
            IN  IF x >= 0
                THEN q >= 0 /\ q * denom[p] <= x /\ x < (q + 1) * denom[p]
                ELSE q <= 0 /\ (q - 1) * denom[p] < x /\ x <= q * denom[p]

C9_Witness ==
    /\ Quantized(1)
    /\ \E i \in 1..Len(int_audio[1]) :
          /\ audio_signal[1][i] > 0
          /\ int_audio[1][i]
                # RoundNearest(audio_signal[1][i] * 32767, denom[1])
    /\ \E i \in 1..Len(int_audio[1]) :
          /\ audio_signal[1][i] < 0
          /\ int_audio[1][i]
                # RoundNearest(audio_signal[1][i] * 32767, denom[1])

\* C10: when every sample has value 0 the peak is 0, the signal is not
\* divided and stays as it was, and the n x 2205 output samples are all 0;
\* a division happens only by a peak above 0.
Silent(p) == \A i \in 1..Len(Data(p)) : Data(p)[i][3] = 0

C10_SilenceHandling ==
    \A p \in Procs :
        /\ (Normalized(p) /\ Silent(p)) =>
              /\ denom[p] = UnitDenom
              /\ \A i \in 1..Len(audio_signal[p]) : audio_signal[p][i] = 0
        /\ (Quantized(p) /\ Silent(p)) =>
              /\ Len(int_audio[p]) = Len(Data(p)) * 2205
              /\ \A i \in 1..Len(int_audio[p]) : int_audio[p][i] = 0
        /\ denom[p] # UnitDenom =>
              denom[p] > 0 /\ denom[p] = max_amplitude(audio_signal[p])

C10_Witness ==
    /\ Served(1)
    /\ Len(Data(1)) = 2
    /\ Silent(1)
    /\ file.data = [i \in 1..4410 |-> 0]

=============================================================================
